---- MODULE Spec2Model ----
(***************************************************************************)
(* Model of server/src/data/users.ts: the user directory kept in a MongoDB *)
(* collection.  Every exported async function is an invocation that runs   *)
(* in one of the slots of Procs; it is cut into steps at the awaited calls *)
(* to the collection, so invocations interleave at every point where one   *)
(* can see what another wrote.  What a function does before its first call *)
(* to the collection (trim, validate, bcrypt.hash, getUserCollection)      *)
(* touches nothing shared, so it is one step with that call.               *)
(*                                                                         *)
(* Strings are sequences of one-character strings, so that trim, the       *)
(* validator predicates and the ObjectId <-> hex conversions are computed  *)
(* rather than assumed.  A password value is [text, salts]: salts = <<>>   *)
(* is the plain text, and bcrypt.hash appends the salt it drew, so a hash  *)
(* of a hash is told apart from a hash of a plaintext.                     *)
(***************************************************************************)
EXTENDS Integers, Sequences, FiniteSets, TLC

VARIABLES
    store,      \* the collection: a sequence of documents, in insertion order
    nextId,     \* the next ObjectId the driver generates
    ncalls,     \* invocations started so far
    pc,         \* pc[p]: where invocation p stands
    op,         \* op[p]: the exported function p runs
    arg,        \* arg[p]: the arguments it was called with
    loc,        \* loc[p]: its local variables
    res,        \* res[p]: what it returned or threw
    calls,      \* calls[p]: collection methods p has called
    origPw      \* history: origPw[i]: the plaintext createUser received for
                \* the i-th inserted document

vars == <<store, nextId, ncalls, pc, op, arg, loc, res, calls, origPw>>

-----------------------------------------------------------------------------
(* Bounds *)

\* invocations in one behaviour
MaxCalls == 3
\* invocations in one behaviour of createUser and addArticleToAuthor alone
MaxArticleCalls == 4
\* the first ObjectId generated (0x0a, so that its hex form has a letter)
FirstId == 10

\* invocation slots; two are enough to interleave any pair of operations
Procs == {1, 2}

-----------------------------------------------------------------------------
(* Characters and strings *)

Whitespace == {" "}
Lower == {"a", "b", "c", "d", "e", "f", "o", "u", "w", "k"}
Upper == {"A", "B", "C", "D", "E", "F"}
Digits == {"0", "1", "2", "3", "4", "5", "6", "7", "8", "9"}
Symbols == {"!", "@", ".", "$"}

RECURSIVE LTrim(_)
LTrim(s) ==
    IF s # <<>> /\ Head(s) \in Whitespace THEN LTrim(Tail(s)) ELSE s

RECURSIVE RTrim(_)
RTrim(s) ==
    IF s # <<>> /\ s[Len(s)] \in Whitespace
    THEN RTrim(SubSeq(s, 1, Len(s) - 1))
    ELSE s

\* validator.trim(str): strips leading and trailing whitespace
trim(s) == RTrim(LTrim(s))

Count(s, set) == Cardinality({i \in 1..Len(s) : s[i] \in set})

\* validator.isAlphanumeric(str): /^[0-9A-Z]+$/i
isAlphanumeric(s) ==
    /\ Len(s) > 0
    /\ \A i \in 1..Len(s) : s[i] \in Lower \cup Upper \cup Digits

\* validator.isEmail(str) with its default options, on this alphabet: one "@",
\* an alphanumeric local part, an alphanumeric domain label, ".", and a
\* top-level domain of at least two letters
isEmail(s) ==
    \E at \in 1..Len(s) : \E dot \in 1..Len(s) :
        /\ s[at] = "@" /\ s[dot] = "."
        /\ 1 < at /\ at + 1 < dot /\ dot + 2 <= Len(s)
        /\ \A i \in 1..Len(s) :
              \/ i \in {at, dot}
              \/ /\ i > dot
                 /\ s[i] \in Lower \cup Upper
              \/ /\ i < dot
                 /\ s[i] \in Lower \cup Upper \cup Digits

\* validator.isStrongPassword defaults
minLength == 8
minLowercase == 1
minUppercase == 1
minNumbers == 1
minSymbols == 1

\* validator.isStrongPassword(str): counts characters, whitespace included in
\* the length
isStrongText(s) ==
    /\ Len(s) >= minLength
    /\ Count(s, Lower) >= minLowercase
    /\ Count(s, Upper) >= minUppercase
    /\ Count(s, Digits) >= minNumbers
    /\ Count(s, Symbols) >= minSymbols

-----------------------------------------------------------------------------
(* Passwords and bcrypt *)

Plain(s) == [text |-> s, salts |-> <<>>]
IsPlain(pw) == pw.salts = <<>>

\* trim of a password string; a bcrypt string has no whitespace to strip
trimPw(pw) == IF IsPlain(pw) THEN Plain(trim(pw.text)) ELSE pw

\* isStrongPassword of a password string; a 60-character bcrypt string
\* "$2b$16$..." has the symbols, digits and letters the policy asks for
isStrongPassword(pw) == IF IsPlain(pw) THEN isStrongText(pw.text) ELSE TRUE

\* bcrypt.hash(data, rounds) with the salt it generated
bcryptHash(data, salt) ==
    [text |-> data.text, salts |-> Append(data.salts, salt)]

\* bcrypt.compare(data, encrypted): hashes data with the salt read from
\* encrypted and compares the two strings; false when encrypted is no hash
bcryptCompare(data, encrypted) ==
    /\ encrypted.salts # <<>>
    /\ bcryptHash(data, encrypted.salts[Len(encrypted.salts)]) = encrypted

-----------------------------------------------------------------------------
(* ObjectId *)

\* the length of an ObjectId's hex string
ObjectIdHexLen == 24

HexDigits == <<"0", "1", "2", "3", "4", "5", "6", "7", "8", "9",
               "a", "b", "c", "d", "e", "f">>
HexUpper == <<"0", "1", "2", "3", "4", "5", "6", "7", "8", "9",
              "A", "B", "C", "D", "E", "F">>

IsHexChar(c) == \E k \in 1..16 : c = HexDigits[k] \/ c = HexUpper[k]
HexVal(c) == (CHOOSE k \in 1..16 : c = HexDigits[k] \/ c = HexUpper[k]) - 1

\* ObjectId.isValid(id) for a string: 24 hex characters of either case
ObjectIdIsValid(s) ==
    /\ Len(s) = ObjectIdHexLen
    /\ \A i \in 1..Len(s) : IsHexChar(s[i])

RECURSIVE HexToNat(_)
HexToNat(s) ==
    IF s = <<>> THEN 0
    ELSE 16 * HexToNat(SubSeq(s, 1, Len(s) - 1)) + HexVal(s[Len(s)])

\* new ObjectId(id)
NewObjectId(s) == HexToNat(s)

RECURSIVE NatToHex(_, _)
NatToHex(n, len) ==
    IF len = 0 THEN <<>>
    ELSE Append(NatToHex(n \div 16, len - 1), HexDigits[(n % 16) + 1])

\* ObjectId.prototype.toString(): 24 lower-case hex characters
ObjectIdToString(n) == NatToHex(n, ObjectIdHexLen)

RECURSIVE UpperHex(_)
UpperHex(s) ==
    IF s = <<>> THEN <<>>
    ELSE <<HexUpper[HexVal(Head(s)) + 1]>> \o UpperHex(Tail(s))

-----------------------------------------------------------------------------
(* Inputs the callers pass *)

Email1 == <<"a", "@", "b", ".", "c", "o">>
Email1Upper == <<"A", "@", "b", ".", "c", "o">>
Email1Padded == <<" ">> \o Email1 \o <<" ">>
EmailBad == <<"a", "b">>
EmailInputs == {Email1, Email1Upper, Email1Padded, EmailBad}

User1 == <<"u", "1">>
User1Padded == <<" ">> \o User1 \o <<" ">>
User2 == <<"u", "2">>
UserBad == <<"u", " ", "1">>
UsernameInputs == {User1, User1Padded, User2, UserBad}

Pass1 == <<"A", "b", "c", "d", "e", "f", "1", "!">>
Pass1Padded == <<" ">> \o Pass1
Pass2 == <<"A", "b", "c", "d", "e", "f", "2", "!">>
PassWeak == <<"w", "e", "a", "k">>
\* what createUser is called with: the valid triples, one triple to trim, and
\* one triple for each check that fails
CreateInputs ==
    ({Email1, Email1Upper} \X {User1} \X {Plain(Pass1), Plain(Pass1Padded)})
    \cup {<<Email1, User2, Plain(Pass1)>>,
          <<Email1Padded, User1Padded, Plain(Pass1)>>,
          <<EmailBad, User1, Plain(Pass1)>>,
          <<Email1, UserBad, Plain(Pass1)>>,
          <<Email1, User1, Plain(PassWeak)>>,
          <<Email1, UserBad, Plain(PassWeak)>>}
PasswordInputs == {Plain(Pass1), Plain(Pass1Padded), Plain(Pass2)}

IdBad == <<"1", "2", "3">>
UserIdInputs ==
    {ObjectIdToString(FirstId), UpperHex(ObjectIdToString(FirstId)),
     ObjectIdToString(FirstId + 1), IdBad}
Article1 == ObjectIdToString(FirstId + 16)
Article2 == ObjectIdToString(FirstId + 17)
\* what addArticleToAuthor is called with: the well-formed pairs, and one
\* pair for each check that fails
AddArticleInputs ==
    ({ObjectIdToString(FirstId)} \X {Article1, Article2})
    \cup {<<UpperHex(ObjectIdToString(FirstId)), Article1>>,
          <<ObjectIdToString(FirstId + 1), Article1>>,
          <<IdBad, Article1>>, <<ObjectIdToString(FirstId), IdBad>>, <<IdBad, IdBad>>}

-----------------------------------------------------------------------------
(* The collection *)

First(s) == IF s = <<>> THEN <<>> ELSE <<Head(s)>>

\* collection.find({email}).toArray()
FindByEmail(st, email) == LET T(d) == d.email = email IN SelectSeq(st, T)
\* collection.find({username}).toArray()
FindByUsername(st, username) == LET T(d) == d.username = username IN SelectSeq(st, T)
\* mutant of FindOneByEmail: the filter names the username field
FindOneByEmailAsUsername(st, email) ==
    LET T(d) == d.username = email IN First(SelectSeq(st, T))

\* collection.findOne({email}): the first match, or none (null)
FindOneByEmail(st, email) == First(FindByEmail(st, email))
\* mutant of FindOneById: findOne with an empty filter
FindOneByIdAsFindAny(st, oid) == First(st)

\* collection.findOne({_id}): the first match, or none (null)
FindOneById(st, oid) == LET T(d) == d._id = oid IN First(SelectSeq(st, T))

\* collection.insertOne(user): the document gets the generated _id
InsertOne(st, user, oid) ==
    Append(st, [_id |-> oid, email |-> user.email, username |-> user.username,
                password |-> user.password, articles |-> <<>>])

\* the position of the first document with this _id, 0 when there is none
PosOfId(st, oid) ==
    IF \E i \in 1..Len(st) : st[i]._id = oid
    THEN CHOOSE i \in 1..Len(st) :
            /\ st[i]._id = oid
            /\ \A j \in 1..(i - 1) : st[j]._id # oid
    ELSE 0

\* mutant of DeleteOne: deleteMany with an empty filter once the document is
\* there
DeleteOneAsDeleteMany(st, oid) == IF PosOfId(st, oid) = 0 THEN st ELSE <<>>

\* collection.deleteOne({_id}): removes the first match
DeleteOne(st, oid) ==
    LET i == PosOfId(st, oid) IN
    IF i = 0 THEN st ELSE SubSeq(st, 1, i - 1) \o SubSeq(st, i + 1, Len(st))

\* mutant of DeletedCount: 1 whenever the delete is acknowledged
DeletedCountAsAcknowledged(st, oid) == 1

\* result.deletedCount: documents the delete removed
DeletedCount(st, oid) == IF PosOfId(st, oid) = 0 THEN 0 ELSE 1

InSeq(x, s) == \E i \in 1..Len(s) : s[i] = x

\* mutant of AddToSet: $set, which replaces the array
AddToSetAsSet(articles, articleId) == <<articleId>>

\* mutant of AddToSet: $push, which appends whatever the array holds
AddToSetAsPush(articles, articleId) == Append(articles, articleId)

\* $addToSet on an array: appends the value unless the array holds it
AddToSet(articles, articleId) ==
    IF InSeq(articleId, articles) THEN articles ELSE Append(articles, articleId)

\* collection.updateOne({_id}, {$addToSet: {articles: articleId}})
UpdateOne(st, oid, articleId) ==
    LET i == PosOfId(st, oid) IN
    IF i = 0 THEN st
    ELSE [st EXCEPT ![i].articles = AddToSet(st[i].articles, articleId)]
\* mutant of ModifiedCount: matchedCount, the documents the filter matched
ModifiedCountAsMatchedCount(st, oid, articleId) ==
    IF PosOfId(st, oid) = 0 THEN 0 ELSE 1

\* updateResult.modifiedCount: documents the update changed
ModifiedCount(st, oid, articleId) ==
    IF UpdateOne(st, oid, articleId) = st THEN 0 ELSE 1

-----------------------------------------------------------------------------
(* Results *)

Ok(users) == [kind |-> "ok", val |-> users, ctx |-> <<>>]
\* a thrown message: its kind and the values it is built from
Err(kind, ctx) == [kind |-> kind, val |-> <<>>, ctx |-> ctx]
NoRes == [kind |-> "none", val |-> <<>>, ctx |-> <<>>]

\* cleanUserObject(userObject): _id becomes its string
cleanUserObject(d) == [d EXCEPT !._id = ObjectIdToString(d._id)]

\* cleanUserObject applied to what findOne gave: reading _id of null throws
\* a TypeError
CleanFound(found) ==
    IF found = <<>> THEN Err("TypeError", <<>>)
    ELSE Ok(<<cleanUserObject(found[1])>>)

\* cleanUserObjects(userObjects)
RECURSIVE cleanUserObjects(_)
cleanUserObjects(ds) ==
    IF ds = <<>> THEN <<>>
    ELSE <<cleanUserObject(Head(ds))>> \o cleanUserObjects(Tail(ds))

-----------------------------------------------------------------------------
(* Invocation state *)

NoPw == Plain(<<>>)
NoArg == [email |-> <<>>, username |-> <<>>, password |-> NoPw,
          id |-> <<>>, articleId |-> <<>>]
NoLoc == [email |-> <<>>, username |-> <<>>, password |-> NoPw, users |-> <<>>,
          insertedId |-> 0]

Init ==
    /\ store = <<>>
    /\ nextId = FirstId
    /\ ncalls = 0
    /\ pc = [p \in Procs |-> "idle"]
    /\ op = [p \in Procs |-> "none"]
    /\ arg = [p \in Procs |-> NoArg]
    /\ loc = [p \in Procs |-> NoLoc]
    /\ res = [p \in Procs |-> NoRes]
    /\ calls = [p \in Procs |-> 0]
    /\ origPw = <<>>

\* a slot is free before its first invocation and once its last one has
\* returned or thrown
Free(p) == pc[p] \in {"idle", "done"}

\* f with the entries of the free slots blanked: the caller has taken the
\* results of the finished invocations when it starts another
Taken(f, blank) == [q \in Procs |-> IF Free(q) THEN blank ELSE f[q]]

\* the invocation starts in the first free slot: its arguments are recorded
Begin(p, name, a) ==
    /\ Free(p)
    /\ \A q \in Procs : q < p => ~Free(q)
    /\ ncalls' = ncalls + 1
    /\ op' = [Taken(op, "none") EXCEPT ![p] = name]
    /\ arg' = [Taken(arg, NoArg) EXCEPT ![p] = a]

\* the invocation that starts has called the collection n times and waits
\* for its next call at label
Proceed(p, label, l, n) ==
    /\ pc' = [Taken(pc, "idle") EXCEPT ![p] = label]
    /\ loc' = [loc EXCEPT ![p] = l]
    /\ res' = Taken(res, NoRes)
    /\ calls' = [Taken(calls, 0) EXCEPT ![p] = n]

\* the invocation that starts returns or throws after n calls to the
\* collection
Settle(p, r, n) ==
    /\ pc' = [Taken(pc, "idle") EXCEPT ![p] = "done"]
    /\ loc' = loc
    /\ res' = [Taken(res, NoRes) EXCEPT ![p] = r]
    /\ calls' = [Taken(calls, 0) EXCEPT ![p] = n]

\* the invocation goes on to its next awaited call
Goto(p, label, l) ==
    /\ pc' = [pc EXCEPT ![p] = label]
    /\ loc' = [loc EXCEPT ![p] = l]
    /\ res' = res

\* the invocation returns or throws
Finish(p, r) ==
    /\ pc' = [pc EXCEPT ![p] = "done"]
    /\ loc' = [loc EXCEPT ![p] = NoLoc]
    /\ res' = [res EXCEPT ![p] = r]

\* bcrypt.genSalt: 16 random bytes, so no two calls draw the same salt; an
\* invocation hashes at most once, and its number stands for the salt it draws
GenSalt == ncalls + 1

\* one more call to the collection
StoreCall(p) == calls' = [calls EXCEPT ![p] = calls[p] + 1]

-----------------------------------------------------------------------------
(* createUser *)

\* mutant of createUserInvalid: the password is not checked
createUserInvalidNoPassword(email, username, password) ==
    IF ~isEmail(email) THEN <<email>>
    ELSE IF ~isAlphanumeric(username) THEN <<username>>
    ELSE <<>>

\* the three checks of createUser, in order: the value the first failing check
\* names, none when all pass
createUserInvalid(email, username, password) ==
    IF ~isEmail(email) THEN <<email>>
    ELSE IF ~isAlphanumeric(username) THEN <<username>>
    ELSE IF ~isStrongPassword(password) THEN <<password.text>>
    ELSE <<>>

\* mutant of createUserDocument: the password is stored as it came
createUserDocumentPlain(email, username, password, salt) ==
    [NoLoc EXCEPT !.email = email, !.username = username, !.password = password]

\* the user object createUser builds: the password field is the bcrypt hash
createUserDocument(email, username, password, salt) ==
    [NoLoc EXCEPT !.email = email, !.username = username,
                  !.password = bcryptHash(password, salt)]

\* createUser up to insertOne: trim, validate, hash, findOne({email}) and
\* the throw when the email is in use
CreateUser(p) ==
    \E in \in CreateInputs :
        LET e == in[1]
            u == in[2]
            w == in[3]
            email == trim(e)
            username == trim(u)
            bad == createUserInvalid(email, username, w)
            emailInUse == FindOneByEmail(store, email)
        IN  /\ Begin(p, "createUser",
                     [NoArg EXCEPT !.email = e, !.username = u, !.password = w])
            /\ IF bad # <<>>
               THEN Settle(p, Err("ValidationError", bad), 0)
               ELSE IF emailInUse # <<>>
               THEN Settle(p, Err("ConflictError", <<email>>), 1)
               ELSE Proceed(p, "create_insertOne",
                            createUserDocument(email, username, w, GenSalt), 1)
            /\ UNCHANGED <<store, nextId, origPw>>

\* insertOne(user): acknowledged, with the generated insertedId
CreateInsertOne(p) ==
    /\ pc[p] = "create_insertOne"
    /\ store' = InsertOne(store, loc[p], nextId)
    /\ nextId' = nextId + 1
    /\ origPw' = Append(origPw, arg[p].password)
    /\ Goto(p, "create_reread", [loc[p] EXCEPT !.insertedId = nextId])
    /\ StoreCall(p)
    /\ UNCHANGED <<ncalls, op, arg>>

\* findOne({_id: insertedId}) and cleanUserObject of what it gave
CreateReread(p) ==
    /\ pc[p] = "create_reread"
    /\ Finish(p, CleanFound(FindOneById(store, loc[p].insertedId)))
    /\ StoreCall(p)
    /\ UNCHANGED <<store, nextId, ncalls, op, arg, origPw>>

-----------------------------------------------------------------------------
(* getUserById *)

GetUserById(p) ==
    \E id \in UserIdInputs :
        LET user == FindOneById(store, NewObjectId(id)) IN
        /\ Begin(p, "getUserById", [NoArg EXCEPT !.id = id])
        /\ IF ~ObjectIdIsValid(id)
           THEN Settle(p, Err("ValidationError", <<id>>), 0)
           ELSE IF user = <<>>
           THEN Settle(p, Err("NotFoundError", <<id>>), 1)
           ELSE Settle(p, Ok(<<cleanUserObject(user[1])>>), 1)
        /\ UNCHANGED <<store, nextId, origPw>>

-----------------------------------------------------------------------------
(* getAllUsers *)

GetAllUsers(p) ==
    /\ Begin(p, "getAllUsers", NoArg)
    /\ Settle(p, Ok(cleanUserObjects(store)), 1)
    /\ UNCHANGED <<store, nextId, origPw>>

-----------------------------------------------------------------------------
(* deleteUserById *)

\* deleteUserById up to deleteOne: validate, findOne({_id}) and the throw
\* when there is no such user
DeleteUserById(p) ==
    \E id \in UserIdInputs :
        LET user == FindOneById(store, NewObjectId(id)) IN
        /\ Begin(p, "deleteUserById", [NoArg EXCEPT !.id = id])
        /\ IF ~ObjectIdIsValid(id)
           THEN Settle(p, Err("ValidationError", <<id>>), 0)
           ELSE IF user = <<>>
           THEN Settle(p, Err("NotFoundError", <<id>>), 1)
           ELSE Proceed(p, "delete_deleteOne", [NoLoc EXCEPT !.users = user], 1)
        /\ UNCHANGED <<store, nextId, origPw>>

\* deleteOne({_id}), the throw when deletedCount is not 1, and the return of
\* the user looked up before
DeleteDeleteOne(p) ==
    /\ pc[p] = "delete_deleteOne"
    /\ LET oid == NewObjectId(arg[p].id) IN
       /\ store' = DeleteOne(store, oid)
       /\ IF DeletedCount(store, oid) # 1
          THEN Finish(p, Err("PersistenceError", <<arg[p].id>>))
          ELSE Finish(p, Ok(<<cleanUserObject(loc[p].users[1])>>))
    /\ StoreCall(p)
    /\ UNCHANGED <<nextId, ncalls, op, arg, origPw>>

-----------------------------------------------------------------------------
(* addArticleToAuthor *)

\* the two checks of addArticleToAuthor, in order
addArticleInvalid(userId, articleId) ==
    IF ~ObjectIdIsValid(userId) THEN <<userId>>
    ELSE IF ~ObjectIdIsValid(articleId) THEN <<articleId>>
    ELSE <<>>

\* addArticleToAuthor up to the re-read: validate, updateOne with $addToSet
\* and the throw when modifiedCount is not 1
AddArticleToAuthor(p) ==
    \E in \in AddArticleInputs :
        LET id == in[1]
            a == in[2]
            bad == addArticleInvalid(id, a)
            oid == NewObjectId(id)
        IN  /\ Begin(p, "addArticleToAuthor",
                     [NoArg EXCEPT !.id = id, !.articleId = a])
            /\ IF bad # <<>>
               THEN /\ Settle(p, Err("ValidationError", bad), 0)
                    /\ store' = store
               ELSE /\ store' = UpdateOne(store, oid, a)
                    /\ IF ModifiedCount(store, oid, a) # 1
                       THEN Settle(p, Err("PersistenceError", <<id, a>>), 1)
                       ELSE Proceed(p, "add_reread", NoLoc, 1)
            /\ UNCHANGED <<nextId, origPw>>

\* findOne({_id}) and cleanUserObject of what it gave
AddReread(p) ==
    /\ pc[p] = "add_reread"
    /\ Finish(p, CleanFound(FindOneById(store, NewObjectId(arg[p].id))))
    /\ StoreCall(p)
    /\ UNCHANGED <<store, nextId, ncalls, op, arg, origPw>>

-----------------------------------------------------------------------------
(* checkUserWithEmail, checkUserWithUsername *)

\* the passwords a caller may supply: the plaintexts, and the password
\* string of the first document (every returned user carries its password
\* field)
AuthPasswordInputs ==
    PasswordInputs \cup {store[i].password : i \in 1..Len(store) \cap {1}}

\* what checkUserWithEmail is called with; the invalid email comes once
CheckEmailInputs ==
    ((EmailInputs \ {EmailBad}) \X AuthPasswordInputs)
    \cup {<<EmailBad, Plain(Pass1)>>}

\* what checkUserWithUsername is called with; the invalid username comes once
CheckUsernameInputs ==
    ((UsernameInputs \ {UserBad}) \X AuthPasswordInputs)
    \cup {<<UserBad, Plain(Pass1)>>}

\* the test of the loop of checkUserWithEmail: compare(user.password, password)
emailCandidateMatches(user, password) == bcryptCompare(user.password, password)

\* the test of the loop of checkUserWithUsername: compare(password, user.password)
usernameCandidateMatches(user, password) == bcryptCompare(password, user.password)

\* the user the loop of checkUserWithEmail returns, none when it falls
\* through: the first of find({email}) whose test holds for the hash of the
\* trimmed password
checkUserWithEmailHit(st, email, w, salt) ==
    LET password == bcryptHash(trimPw(w), salt)
        users == FindByEmail(st, email)
        T(user) == emailCandidateMatches(user, password)
    IN  First(SelectSeq(users, T))

\* the user the loop of checkUserWithUsername returns, none when it falls
\* through: the first of find({username}) whose test holds for the trimmed
\* password
checkUserWithUsernameHit(st, username, w) ==
    LET password == trimPw(w)
        users == FindByUsername(st, username)
        T(user) == usernameCandidateMatches(user, password)
    IN  First(SelectSeq(users, T))

\* checkUserWithEmail: trim, hash the trimmed password, validate the email,
\* find({email}).toArray() and the loop over what it gave
CheckUserWithEmail(p) ==
    \E in \in CheckEmailInputs :
        LET e == in[1]
            w == in[2]
            email == trim(e)
            hit == checkUserWithEmailHit(store, email, w, GenSalt)
        IN  /\ Begin(p, "checkUserWithEmail",
                     [NoArg EXCEPT !.email = e, !.password = w])
            /\ IF ~isEmail(email)
               THEN Settle(p, Err("ValidationError", <<email>>), 0)
               ELSE IF hit # <<>>
               THEN Settle(p, Ok(<<cleanUserObject(hit[1])>>), 1)
               ELSE Settle(p, Err("AuthenticationError", <<email>>), 1)
            /\ UNCHANGED <<store, nextId, origPw>>

\* checkUserWithUsername: trim both, validate the username,
\* find({username}).toArray() and the loop over what it gave
CheckUserWithUsername(p) ==
    \E in \in CheckUsernameInputs :
        LET u == in[1]
            w == in[2]
            username == trim(u)
            hit == checkUserWithUsernameHit(store, username, w)
        IN  /\ Begin(p, "checkUserWithUsername",
                     [NoArg EXCEPT !.username = u, !.password = w])
            /\ IF ~isAlphanumeric(username)
               THEN Settle(p, Err("ValidationError", <<username>>), 0)
               ELSE IF hit # <<>>
               THEN Settle(p, Ok(<<cleanUserObject(hit[1])>>), 1)
               ELSE Settle(p, Err("AuthenticationError", <<username>>), 1)
            /\ UNCHANGED <<store, nextId, origPw>>

-----------------------------------------------------------------------------
(* Specifications *)

\* the caller has made fewer than n invocations
Within(n) == ncalls < n

\* invocations interleave at their awaited calls
Next ==
    \/ \E p \in Procs : Within(MaxCalls) /\ CreateUser(p)
    \/ \E p \in Procs : CreateInsertOne(p)
    \/ \E p \in Procs : CreateReread(p)
    \/ \E p \in Procs : Within(MaxCalls) /\ GetUserById(p)
    \/ \E p \in Procs : Within(MaxCalls) /\ GetAllUsers(p)
    \/ \E p \in Procs : Within(MaxCalls) /\ DeleteUserById(p)
    \/ \E p \in Procs : DeleteDeleteOne(p)
    \/ \E p \in Procs : Within(MaxCalls) /\ AddArticleToAuthor(p)
    \/ \E p \in Procs : AddReread(p)
    \/ \E p \in Procs : Within(MaxCalls) /\ CheckUserWithEmail(p)
    \/ \E p \in Procs : Within(MaxCalls) /\ CheckUserWithUsername(p)

Spec == Init /\ [][Next]_vars

\* no other invocation is in flight
Alone(p) == \A q \in Procs \ {p} : Free(q)

\* the caller awaits every invocation before it starts the next
SeqNext ==
    \/ \E p \in Procs : Within(MaxCalls) /\ Alone(p) /\ CreateUser(p)
    \/ \E p \in Procs : Alone(p) /\ CreateInsertOne(p)
    \/ \E p \in Procs : Alone(p) /\ CreateReread(p)
    \/ \E p \in Procs : Within(MaxCalls) /\ Alone(p) /\ GetUserById(p)
    \/ \E p \in Procs : Within(MaxCalls) /\ Alone(p) /\ GetAllUsers(p)
    \/ \E p \in Procs : Within(MaxCalls) /\ Alone(p) /\ DeleteUserById(p)
    \/ \E p \in Procs : Alone(p) /\ DeleteDeleteOne(p)
    \/ \E p \in Procs : Within(MaxCalls) /\ Alone(p) /\ AddArticleToAuthor(p)
    \/ \E p \in Procs : Alone(p) /\ AddReread(p)
    \/ \E p \in Procs : Within(MaxCalls) /\ Alone(p) /\ CheckUserWithEmail(p)
    \/ \E p \in Procs : Within(MaxCalls) /\ Alone(p) /\ CheckUserWithUsername(p)

SeqSpec == Init /\ [][SeqNext]_vars

\* the caller only creates users and adds articles, in interleaved invocations
ArticleNext ==
    \/ \E p \in Procs : Within(MaxArticleCalls) /\ CreateUser(p)
    \/ \E p \in Procs : CreateInsertOne(p)
    \/ \E p \in Procs : CreateReread(p)
    \/ \E p \in Procs : Within(MaxArticleCalls) /\ AddArticleToAuthor(p)
    \/ \E p \in Procs : AddReread(p)

ArticleSpec == Init /\ [][ArticleNext]_vars

-----------------------------------------------------------------------------
(* Vocabulary of the properties *)

\* the plaintext createUser received for document d
OrigPwOf(d) == origPw[d._id - FirstId + 1]

Ids(st) == {st[i]._id : i \in 1..Len(st)}

\* this step starts an invocation of the function name, in slot p
Starts(p, name) ==
    /\ ncalls' = ncalls + 1
    /\ Free(p)
    /\ \A q \in Procs : q < p => ~Free(q)
    /\ op'[p] = name

\* this step is the step of invocation p that stands at label
At(p, label) == pc[p] = label /\ pc'[p] # label

\* st without its i-th document
Without(st, i) == SubSeq(st, 1, i - 1) \o SubSeq(st, i + 1, Len(st))

\* document d as a caller sees it
AsReturned(d) == [d EXCEPT !._id = ObjectIdToString(d._id)]

-----------------------------------------------------------------------------
(* C1 *)

\* C1: in every reachable state, under any interleaving of invocations, no
\* two documents have the same _id and no two documents have the same email.
C1_UniqueIdAndEmail ==
    \A i, j \in 1..Len(store) :
        i # j => /\ store[i]._id # store[j]._id
                 /\ store[i].email # store[j].email

-----------------------------------------------------------------------------
(* C2 *)

\* C2: checkUserWithEmail called with the email of a document and the exact
\* password that document's user was created with returns that user.
C2_AuthByEmailReturnsUser ==
    [][\A p \in Procs :
          Starts(p, "checkUserWithEmail") =>
             \A i \in 1..Len(store) :
                (/\ store[i].email = arg'[p].email
                 /\ OrigPwOf(store[i]) = arg'[p].password)
                => res'[p] = Ok(<<AsReturned(store[i])>>)]_vars

-----------------------------------------------------------------------------
(* C3 *)

EmailPersisted(st, email) == \E i \in 1..Len(st) : st[i].email = email

\* C3 as stated: createUser called with an email that is the email of a
\* document throws the conflict error whatever the username and the password
\* are, valid or not, and leaves the collection unchanged.
C3_ConflictWhateverTheRest ==
    [][\A p \in Procs :
          (Starts(p, "createUser") /\ EmailPersisted(store, arg'[p].email))
          => /\ res'[p].kind = "ConflictError"
             /\ store' = store]_vars

\* C3, amended: createUser called with a valid username and a strong password
\* and an email whose trimmed form is the email of a document when it looks
\* the email up throws the conflict error, whatever that username and that
\* password are; the collection is unchanged.
C3_ConflictWhenValid ==
    [][\A p \in Procs :
          (/\ Starts(p, "createUser")
           /\ isAlphanumeric(trim(arg'[p].username))
           /\ isStrongPassword(arg'[p].password)
           /\ EmailPersisted(store, trim(arg'[p].email)))
          => /\ pc'[p] = "done"
             /\ res'[p].kind = "ConflictError"
             /\ store' = store]_vars

\* a createUser that met a registered email, called with another username
\* and another password than the registered user's
C3_Witness ==
    \E p \in Procs : \E i \in 1..Len(store) :
        /\ pc[p] = "done" /\ op[p] = "createUser"
        /\ res[p].kind = "ConflictError"
        /\ store[i].email = trim(arg[p].email)
        /\ store[i].username # trim(arg[p].username)
        /\ OrigPwOf(store[i]) # arg[p].password

-----------------------------------------------------------------------------
(* C4 *)

\* the input of operation o fails the validation of o
InputInvalid(o, a) ==
    CASE o = "createUser" ->
            \/ ~isEmail(trim(a.email))
            \/ ~isAlphanumeric(trim(a.username))
            \/ ~isStrongPassword(a.password)
      [] o \in {"getUserById", "deleteUserById"} -> ~ObjectIdIsValid(a.id)
      [] o = "addArticleToAuthor" ->
            ~ObjectIdIsValid(a.id) \/ ~ObjectIdIsValid(a.articleId)
      [] o = "checkUserWithEmail" -> ~isEmail(trim(a.email))
      [] o = "checkUserWithUsername" -> ~isAlphanumeric(trim(a.username))
      [] OTHER -> FALSE

\* C4: an invocation whose input fails validation has thrown the validation
\* error and has called the collection 0 times, and the step that started it
\* left the collection unchanged.
C4_ValidationBeforeStore ==
    /\ [](\A p \in Procs :
            InputInvalid(op[p], arg[p])
            => /\ pc[p] = "done"
               /\ res[p].kind = "ValidationError"
               /\ calls[p] = 0)
    /\ [][\A p \in Procs :
            (Starts(p, op'[p]) /\ InputInvalid(op'[p], arg'[p]))
            => store' = store]_vars

\* on a collection that holds a user, createUser with a valid email and
\* username was refused for its weak password before any collection call
C4_Witness ==
    /\ store # <<>>
    /\ pc[1] = "done" /\ op[1] = "createUser"
    /\ res[1].kind = "ValidationError" /\ arg[1].password = Plain(PassWeak)
    /\ isEmail(arg[1].email) /\ isAlphanumeric(arg[1].username)
    /\ calls[1] = 0

-----------------------------------------------------------------------------
(* C5 *)

\* C5: the password field of every document is the bcrypt hash of the
\* password createUser received, never that password itself, and the user a
\* successful createUser returns has a password field that differs from the
\* plaintext it was called with.
C5_PasswordStoredHashed ==
    /\ \A i \in 1..Len(store) :
          /\ store[i].password # OrigPwOf(store[i])
          /\ ~IsPlain(store[i].password)
          /\ bcryptCompare(OrigPwOf(store[i]), store[i].password)
    /\ \A p \in Procs :
          (pc[p] = "done" /\ op[p] = "createUser" /\ res[p].kind = "ok")
          => /\ res[p].val[1].password # arg[p].password
             /\ bcryptCompare(arg[p].password, res[p].val[1].password)

\* two createUser have returned users, one of them created with a password
\* that has leading whitespace
C5_Witness ==
    /\ Len(store) = 2
    /\ \A p \in Procs : pc[p] = "done" /\ op[p] = "createUser" /\ res[p].kind = "ok"
    /\ \E p \in Procs : arg[p].password = Plain(Pass1Padded)

-----------------------------------------------------------------------------
(* C6 *)

\* C6: checkUserWithEmail with a registered email and a wrong password, and
\* with an unregistered email and any password, throws the authentication
\* error, and the error is the same in both cases: it is made of the email
\* argument alone.
C6_AuthByEmailRejectsAlike ==
    [][\A p \in Procs :
          (/\ Starts(p, "checkUserWithEmail")
           /\ isEmail(trim(arg'[p].email))
           /\ \A i \in 1..Len(store) :
                 store[i].email = trim(arg'[p].email)
                 => OrigPwOf(store[i]) # arg'[p].password)
          => res'[p] = Err("AuthenticationError", <<trim(arg'[p].email)>>)]_vars

-----------------------------------------------------------------------------
(* C7 *)

\* C7: checkUserWithUsername returns the first document, in the collection's
\* order, whose username is the trimmed username and whose stored hash
\* verifies against the supplied password; when there is none it throws the
\* authentication error; the collection is unchanged either way.
C7_AuthByUsernameFirstVerified ==
    [][\A p \in Procs :
          (/\ Starts(p, "checkUserWithUsername")
           /\ isAlphanumeric(trim(arg'[p].username)))
          => LET V(d) == /\ d.username = trim(arg'[p].username)
                         /\ bcryptCompare(arg'[p].password, d.password)
                 hit == First(SelectSeq(store, V))
             IN  /\ store' = store
                 /\ IF hit # <<>>
                    THEN res'[p] = Ok(<<AsReturned(hit[1])>>)
                    ELSE res'[p].kind = "AuthenticationError"]_vars

-----------------------------------------------------------------------------
(* C8 *)

\* C8: getUserById throws the validation error for an identifier that is not
\* well formed, throws the not-found error for a well-formed identifier no
\* document has, and for the identifier of a document returns that document
\* with its _id as the 24-character string; the collection is unchanged in
\* all three cases.
C8_GetById ==
    [][\A p \in Procs :
          Starts(p, "getUserById")
          => /\ store' = store
             /\ pc'[p] = "done"
             /\ IF ~ObjectIdIsValid(arg'[p].id)
                THEN res'[p].kind = "ValidationError"
                ELSE IF NewObjectId(arg'[p].id) \notin Ids(store)
                THEN res'[p].kind = "NotFoundError"
                ELSE \E i \in 1..Len(store) :
                        /\ store[i]._id = NewObjectId(arg'[p].id)
                        /\ res'[p] = Ok(<<AsReturned(store[i])>>)
                        /\ Len(res'[p].val[1]._id) = ObjectIdHexLen]_vars

\* getUserById, asked for the second of two users, has returned it with its
\* string _id
C8_Witness ==
    \E p \in Procs :
        /\ pc[p] = "done" /\ op[p] = "getUserById" /\ res[p].kind = "ok"
        /\ arg[p].id = ObjectIdToString(FirstId + 1)
        /\ res[p].val[1]._id = ObjectIdToString(FirstId + 1)
        /\ Len(store) = 2

-----------------------------------------------------------------------------
(* C9 *)

\* C9, invocations run one after the other: deleteUserById on the identifier
\* of a document goes on to delete it, returns the document as it was before
\* the delete and removes that document alone; an identifier once deleted
\* is never a document's again, and getUserById on an identifier no document
\* has throws the not-found error.
C9_DeleteById ==
    [][/\ \A p \in Procs :
            /\ (/\ Starts(p, "deleteUserById")
                /\ ObjectIdIsValid(arg'[p].id)
                /\ NewObjectId(arg'[p].id) \in Ids(store))
               => pc'[p] = "delete_deleteOne" /\ store' = store
            /\ At(p, "delete_deleteOne")
               => \E i \in 1..Len(store) :
                     /\ store[i]._id = NewObjectId(arg[p].id)
                     /\ res'[p] = Ok(<<AsReturned(store[i])>>)
                     /\ store' = Without(store, i)
            /\ (/\ Starts(p, "getUserById")
                /\ ObjectIdIsValid(arg'[p].id)
                /\ NewObjectId(arg'[p].id) \notin Ids(store))
               => res'[p].kind = "NotFoundError"
       /\ \A id \in FirstId..(nextId - 1) :
            id \notin Ids(store) => id \notin Ids(store')]_vars

\* a getUserById after the deleteUserById of that identifier: the document
\* is gone, another document is still there, and the lookup threw not-found
C9_Witness ==
    \E p \in Procs :
        /\ pc[p] = "done" /\ op[p] = "getUserById"
        /\ res[p].kind = "NotFoundError"
        /\ NewObjectId(arg[p].id) < nextId
        /\ NewObjectId(arg[p].id) \notin Ids(store)

\* a deleteUserById that returned the document and left the other one
DeleteLeftTheOther ==
    \E p \in Procs :
        /\ pc[p] = "done" /\ op[p] = "deleteUserById" /\ res[p].kind = "ok"
        /\ Len(store) = 1
        /\ res[p].val[1]._id = arg[p].id

-----------------------------------------------------------------------------
(* C10 *)

\* C10: the articles of every document hold no identifier more than once,
\* whatever addArticleToAuthor calls were made, two calls with the same
\* userId and articleId included.
C10_NoDuplicateArticle ==
    \A i \in 1..Len(store) :
        \A a, b \in 1..Len(store[i].articles) :
            a # b => store[i].articles[a] # store[i].articles[b]

\* the same article was added twice to the same user (the second call found
\* nothing to modify)
C10_Witness ==
    \E p \in Procs : \E i \in 1..Len(store) :
        /\ pc[p] = "done" /\ op[p] = "addArticleToAuthor"
        /\ res[p].kind = "PersistenceError"
        /\ store[i]._id = NewObjectId(arg[p].id)
        /\ Cardinality({a \in 1..Len(store[i].articles) :
                           store[i].articles[a] = arg[p].articleId}) = 1

-----------------------------------------------------------------------------
(* C11 *)

\* C11: addArticleToAuthor with two well-formed identifiers throws the
\* not-added error exactly when updateOne modifies no document, that is when
\* no document has userId or when the document's articles already hold
\* articleId, and then the collection is unchanged; otherwise the update
\* appends articleId to that document alone and the invocation goes on to its
\* re-read, which throws no not-added error.
C11_PersistenceErrorWhenUnmodified ==
    [][\A p \in Procs :
          /\ (/\ Starts(p, "addArticleToAuthor")
              /\ ~InputInvalid("addArticleToAuthor", arg'[p]))
             => LET oid == NewObjectId(arg'[p].id)
                    a == arg'[p].articleId
                    held == \E i \in 1..Len(store) :
                               /\ store[i]._id = oid
                               /\ InSeq(a, store[i].articles)
                IN  IF oid \notin Ids(store) \/ held
                    THEN /\ pc'[p] = "done"
                         /\ res'[p].kind = "PersistenceError"
                         /\ store' = store
                    ELSE /\ pc'[p] = "add_reread"
                         /\ \E i \in 1..Len(store) :
                               /\ store[i]._id = oid
                               /\ store' = [store EXCEPT ![i].articles =
                                                Append(store[i].articles, a)]
          /\ At(p, "add_reread") => res'[p].kind # "PersistenceError"]_vars

\* two addArticleToAuthor with the same arguments: the first has returned the
\* user, the second has thrown the not-added error
C11_Witness ==
    /\ pc[1] = "done" /\ pc[2] = "done"
    /\ op[1] = "addArticleToAuthor" /\ op[2] = "addArticleToAuthor"
    /\ arg[1] = arg[2]
    /\ res[1].kind = "ok" /\ res[2].kind = "PersistenceError"
    /\ InSeq(arg[1].articleId, res[1].val[1].articles)

-----------------------------------------------------------------------------
(* C12 *)

\* C12: once createUser has returned a user, getUserById on the _id of that
\* user, while the document is in the collection, returns a user with the
\* same _id, the trimmed email and the trimmed username createUser was called
\* with, and the password createUser returned, which is a bcrypt hash.
C12_RoundTrip ==
    [][\A p, q \in Procs :
          (/\ Starts(p, "getUserById")
           /\ pc[q] = "done" /\ op[q] = "createUser" /\ res[q].kind = "ok"
           /\ arg'[p].id = res[q].val[1]._id
           /\ NewObjectId(arg'[p].id) \in Ids(store))
          => /\ res'[p].kind = "ok"
             /\ res'[p].val[1]._id = res[q].val[1]._id
             /\ res'[p].val[1].email = trim(arg[q].email)
             /\ res'[p].val[1].email = res[q].val[1].email
             /\ res'[p].val[1].username = trim(arg[q].username)
             /\ res'[p].val[1].username = res[q].val[1].username
             /\ res'[p].val[1].password = res[q].val[1].password
             /\ bcryptCompare(arg[q].password, res'[p].val[1].password)]_vars

\* one createUser has returned its user (two invocations were made, one
\* document was inserted, none is in flight) and the getUserById that
\* followed it, on that _id, has returned the user with its hashed password
C12_Witness ==
    /\ ncalls = 2 /\ Len(store) = 1 /\ Len(origPw) = 1
    /\ pc[1] = "done" /\ op[1] = "getUserById" /\ res[1].kind = "ok"
    /\ pc[2] = "idle"
    /\ arg[1].id = ObjectIdToString(store[1]._id)
    /\ res[1].val[1].email = store[1].email
    /\ res[1].val[1].password = bcryptHash(origPw[1], 1)

-----------------------------------------------------------------------------
(* C13 *)

\* the lower-case form of a character and of a string
LowerOfChar(c) ==
    CASE c = "A" -> "a" [] c = "B" -> "b" [] c = "C" -> "c"
      [] c = "D" -> "d" [] c = "E" -> "e" [] c = "F" -> "f"
      [] OTHER -> c
toLowerCase(s) == [i \in 1..Len(s) |-> LowerOfChar(s[i])]

\* the lower-case, trimmed form of an email
NormalEmail(s) == toLowerCase(trim(s))

\* C13, invocations run one after the other: the email of every document is
\* in lower-case, trimmed form, and createUser with a valid input whose email
\* differs from a document's email at most in letter case or surrounding
\* whitespace throws the conflict error and inserts nothing.
C13_EmailStoredLowerTrimmed ==
    /\ [](\A i \in 1..Len(store) : store[i].email = NormalEmail(store[i].email))
    /\ [][\A p \in Procs :
             (/\ Starts(p, "createUser")
              /\ ~InputInvalid("createUser", arg'[p])
              /\ \E i \in 1..Len(store) :
                    NormalEmail(store[i].email) = NormalEmail(arg'[p].email))
             => /\ pc'[p] = "done"
                /\ res'[p].kind = "ConflictError"
                /\ store' = store]_vars

-----------------------------------------------------------------------------
(* C14 *)

\* every element of s is an element of t
SubsetSeq(s, t) == \A i \in 1..Len(s) : InSeq(s[i], t)

\* the functions that only read the collection
Readers ==
    {"getUserById", "getAllUsers", "checkUserWithEmail", "checkUserWithUsername"}

\* C14: in every step, a document that is in the collection before and after
\* the step keeps its _id, email, username and password, and its articles
\* after the step hold every identifier they held before; and the step of
\* getUserById, getAllUsers, checkUserWithEmail or checkUserWithUsername
\* leaves the whole collection unchanged.
C14_FieldsFrozenArticlesGrow ==
    [][/\ \A i \in 1..Len(store) :
             store[i]._id \in Ids(store')
             => \E j \in 1..Len(store') :
                   /\ store'[j]._id = store[i]._id
                   /\ store'[j].email = store[i].email
                   /\ store'[j].username = store[i].username
                   /\ store'[j].password = store[i].password
                   /\ SubsetSeq(store[i].articles, store'[j].articles)
       /\ \A p \in Procs :
             (\E name \in Readers : Starts(p, name)) => store' = store]_vars

\* a document has received two article identifiers, one after the other, and
\* still has the password hash it was created with
C14_Witness ==
    /\ Len(store) = 1
    /\ Len(store[1].articles) = 2
    /\ store[1].articles[1] # store[1].articles[2]
    /\ bcryptCompare(OrigPwOf(store[1]), store[1].password)

-----------------------------------------------------------------------------
(* C15 *)

\* invocations p and q are deleteUserById on the same ObjectId
SameDelete(p, q) ==
    /\ op[p] = "deleteUserById" /\ op[q] = "deleteUserById"
    /\ ObjectIdIsValid(arg[p].id) /\ ObjectIdIsValid(arg[q].id)
    /\ NewObjectId(arg[p].id) = NewObjectId(arg[q].id)

\* C15: a deleteUserById whose lookup comes after the document is gone
\* throws the not-found error; one whose lookup found the document and whose
\* deleteOne comes after the document is gone throws the not-deleted error
\* and removes nothing; one whose deleteOne finds the document removes that
\* document alone and returns the user it looked up.  So of two interleaved
\* deleteUserById on the same identifier that both found the document, one
\* has returned the user and the other has thrown the not-deleted error.
C15_DeleteRace ==
    /\ [](\A p, q \in Procs :
             (/\ p # q /\ SameDelete(p, q)
              /\ pc[p] = "done" /\ pc[q] = "done"
              /\ calls[p] = 2 /\ calls[q] = 2)
             => /\ {res[p].kind, res[q].kind} = {"ok", "PersistenceError"}
                /\ NewObjectId(arg[p].id) \notin Ids(store))
    /\ [][\A p \in Procs :
             /\ (/\ Starts(p, "deleteUserById")
                 /\ ObjectIdIsValid(arg'[p].id)
                 /\ NewObjectId(arg'[p].id) \notin Ids(store))
                => /\ res'[p].kind = "NotFoundError"
                   /\ store' = store
             /\ At(p, "delete_deleteOne")
                => LET oid == NewObjectId(arg[p].id) IN
                   IF oid \in Ids(store)
                   THEN /\ res'[p] = Ok(<<AsReturned(loc[p].users[1])>>)
                        /\ res'[p].val[1]._id = ObjectIdToString(oid)
                        /\ Len(store') = Len(store) - 1
                        /\ Ids(store') = Ids(store) \ {oid}
                   ELSE /\ res'[p].kind = "PersistenceError"
                        /\ store' = store]_vars

\* two interleaved deleteUserById on the same identifier: the first has
\* returned the user, the second has thrown the not-deleted error
C15_Witness ==
    /\ SameDelete(1, 2)
    /\ pc[1] = "done" /\ pc[2] = "done"
    /\ res[1].kind = "ok" /\ res[2].kind = "PersistenceError"
    /\ store = <<>>

-----------------------------------------------------------------------------
(* C16 *)

\* invocations p and q are addArticleToAuthor on the same ObjectId with two
\* different article identifiers
TwoArticles(p, q) ==
    /\ op[p] = "addArticleToAuthor" /\ op[q] = "addArticleToAuthor"
    /\ ~InputInvalid("addArticleToAuthor", arg[p])
    /\ ~InputInvalid("addArticleToAuthor", arg[q])
    /\ NewObjectId(arg[p].id) = NewObjectId(arg[q].id)
    /\ arg[p].articleId # arg[q].articleId

-----------------------------------------------------------------------------
(* C17 *)

\* C17: when the re-read of createUser or of addArticleToAuthor, after the
\* write succeeded, finds no document, the invocation throws the persistence
\* error: it returns no user and throws nothing else.
C17_RereadEmptyIsPersistenceError ==
    [][\A p \in Procs :
          (\/ /\ At(p, "create_reread")
              /\ loc[p].insertedId \notin Ids(store)
           \/ /\ At(p, "add_reread")
              /\ NewObjectId(arg[p].id) \notin Ids(store))
          => /\ pc'[p] = "done"
             /\ res'[p].kind = "PersistenceError"]_vars

-----------------------------------------------------------------------------
(* C18 *)

\* document i is the only one with its email and the only one with its
\* username
HeldAlone(i) ==
    \A j \in 1..Len(store) :
        j # i => /\ store[j].email # store[i].email
                 /\ store[j].username # store[i].username

\* C18, invocations run one after the other: for every document that alone
\* has its email and its username, and every password, checkUserWithEmail
\* called with that email and password returns the document exactly when
\* checkUserWithUsername called with that username and password returns it.
C18_SameVerification ==
    \A i \in 1..Len(store) :
        HeldAlone(i)
        => \A w \in AuthPasswordInputs :
              (checkUserWithEmailHit(store, trim(store[i].email), w, GenSalt)
                  = <<store[i]>>)
              <=> (checkUserWithUsernameHit(store, trim(store[i].username), w)
                      = <<store[i]>>)

-----------------------------------------------------------------------------
(* C19 *)

\* the documents checkUserWithEmail or checkUserWithUsername looks among,
\* for the arguments a of the function name
Candidates(name, a) ==
    IF name = "checkUserWithEmail"
    THEN FindByEmail(store, trim(a.email))
    ELSE FindByUsername(store, trim(a.username))

\* C19, invocations run one after the other: checkUserWithEmail and
\* checkUserWithUsername with a valid email or username return a user only
\* when the supplied password is, character for character, the password
\* createUser received for that user, throw the authentication error
\* otherwise, and do return a user when the supplied password is the
\* password createUser received for one of the users they look among,
\* leading or trailing whitespace included.
C19_ExactPasswordOnly ==
    [][\A p \in Procs :
          \A name \in {"checkUserWithEmail", "checkUserWithUsername"} :
             (Starts(p, name) /\ ~InputInvalid(name, arg'[p]))
             => LET users == Candidates(name, arg'[p])
                    Exact(d) == OrigPwOf(d) = arg'[p].password
                IN  /\ res'[p].kind \in {"ok", "AuthenticationError"}
                    /\ res'[p].kind = "ok"
                       => \E i \in 1..Len(users) :
                             /\ Exact(users[i])
                             /\ res'[p].val[1] = AsReturned(users[i])
                    /\ (\E i \in 1..Len(users) : Exact(users[i]))
                       => res'[p].kind = "ok"]_vars

====
